---- MODULE Spec2Model ----
(***************************************************************************)
(* DishOut web client (src/App.tsx, src/types.ts).                         *)
(*                                                                         *)
(* The model is the App component's React state, the asynchronous tasks it *)
(* starts (scan pipeline, background image upload), the outbound effects   *)
(* of the order relay (alert, lead-tracking call, deep link) and the       *)
(* AIService response parsing.  One action per handler or per settlement   *)
(* of an awaited promise.                                                  *)
(***************************************************************************)
EXTENDS Integers, Sequences, FiniteSets, TLC

(***************************************************************************)
(* Bounds of the model.                                                    *)
(***************************************************************************)
MaxScans  == 2      \* file selections explored
MaxOrders == 1      \* provider selections explored
MaxAlerts == 1      \* refused order clicks explored

(***************************************************************************)
(* Values.                                                                 *)
(***************************************************************************)
null == "null"                      \* JS null / undefined where a string is expected
nil  == [nil |-> TRUE]              \* JS null / undefined where an object is expected
notYet == [notYet |-> TRUE]         \* captureUser before the first capture request

\* enum AppState, src/types.ts
IDLE      == "IDLE"
CAPTURING == "CAPTURING"
ANALYZING == "ANALYZING"
RESULTS   == "RESULTS"
ERROR     == "ERROR"
AppState  == {IDLE, CAPTURING, ANALYZING, RESULTS, ERROR}

Pages == {"home", "privacy", "terms", "auth"}

\* the picked files, named by their pixel content
Files == {"AAAA"}

\* positions the platform may report
Locations == { [latitude |-> 25, longitude |-> 55] }

\* the ways getLocation rejects
LocationFailures == {"unsupported", "denied", "timeout"}

Users == { [email |-> "ana@example.com"] }

Providers == {"Talabat"}

(***************************************************************************)
(* Strings.  TLC evaluates Len, SubSeq, Head, Tail and \o on strings.      *)
(***************************************************************************)
CharAt(s, i) == SubSeq(s, i, i)

\* F(x), with x evaluated once: what `const v = x` does
Bind(x, F(_)) == CHOOSE r \in { F(v) : v \in {x} } : TRUE

Min(a, b) == IF a <= b THEN a ELSE b

\* String.prototype.indexOf, 1-based; 0 stands for JS -1
IndexFrom(s, t, from) ==
  LET hits == { i \in from .. (Len(s) - Len(t) + 1) : SubSeq(s, i, i + Len(t) - 1) = t }
  IN  IF hits = {} THEN 0 ELSE CHOOSE i \in hits : \A j \in hits : i <= j

IndexOf(s, t) == IndexFrom(s, t, 1)

Digits == {"0", "1", "2", "3", "4", "5", "6", "7", "8", "9"}

\* \s of the JS regular expressions, over the characters used here
WhiteSpace == {" ", "\n", "\t"}


RECURSIVE TrimStart(_)
TrimStart(s) ==
  IF Len(s) > 0 /\ Head(s) \in WhiteSpace THEN TrimStart(Tail(s)) ELSE s

RECURSIVE TrimEnd(_)
TrimEnd(s) ==
  IF Len(s) > 0 /\ CharAt(s, Len(s)) \in WhiteSpace
  THEN TrimEnd(SubSeq(s, 1, Len(s) - 1)) ELSE s

\* String.prototype.trim
Trim(s) == TrimEnd(TrimStart(s))

\* s.replace(/[chars]/g, ''): drop every character of the set
RECURSIVE RemoveChars(_, _)
RemoveChars(s, chars) ==
  IF Len(s) = 0 THEN ""
  ELSE IF Len(s) = 1 THEN (IF s \in chars THEN "" ELSE s)
  ELSE LET h == Len(s) \div 2
       IN  RemoveChars(SubSeq(s, 1, h), chars) \o RemoveChars(SubSeq(s, h + 1, Len(s)), chars)

\* the characters of s matched by \D
NonDigits(s) == { CharAt(s, i) : i \in 1 .. Len(s) } \ Digits

\* String.prototype.split(sep) for a one-character separator
RECURSIVE Split(_, _)
Split(s, sep) ==
  Bind(IndexOf(s, sep),
       LAMBDA i : IF i = 0 THEN <<s>>
                  ELSE <<SubSeq(s, 1, i - 1)>> \o Split(SubSeq(s, i + 1, Len(s)), sep))

\* Array.prototype.join
RECURSIVE Join(_, _)
Join(parts, sep) ==
  IF Len(parts) = 0 THEN ""
  ELSE IF Len(parts) = 1 THEN parts[1]
  ELSE parts[1] \o sep \o Join(Tail(parts), sep)

\* Array.prototype.slice(from, to) with 0-based from, exclusive to
Slice(parts, from, to) == SubSeq(parts, from + 1, Min(to, Len(parts)))

\* lines.filter(l => l.trim().length > 0)
NonBlank(parts) == SelectSeq(parts, LAMBDA l : Len(Trim(l)) > 0)

(***************************************************************************)
(* AIService.identifyDishAndFindPlaces: response parsing and enrichment.   *)
(***************************************************************************)
SnippetWindow == 400

FallbackText        == "I couldn't identify the dish."
FallbackDishName    == "Unknown Dish"
FallbackDescription == "Delicious culinary creation identified."
AnalysisFailedMsg   ==
  "Failed to analyze dish. Please ensure your API_KEY is a valid Google Gemini key."

\* [+\d\s()-]
PhoneClass == Digits \cup WhiteSpace \cup {"+", "(", ")", "-"}
\* [-.\s]
SepClass == WhiteSpace \cup {"-", "."}

\* number of consecutive characters of the class starting at position p
RECURSIVE RunLen(_, _, _)
RunLen(s, p, class) ==
  IF p <= Len(s) /\ CharAt(s, p) \in class THEN 1 + RunLen(s, p + 1, class) ELSE 0

\* /phone:/i at position p
PhoneLabelAt(s, p) ==
  /\ p + 5 <= Len(s)
  /\ CharAt(s, p)     \in {"P", "p"}
  /\ CharAt(s, p + 1) \in {"H", "h"}
  /\ CharAt(s, p + 2) \in {"O", "o"}
  /\ CharAt(s, p + 3) \in {"N", "n"}
  /\ CharAt(s, p + 4) \in {"E", "e"}
  /\ CharAt(s, p + 5) = ":"

\* snippet.match(/Phone:\s*([+\d\s()-]{8,})/i): capture group 1, or null.
\* \s* is greedy and gives whitespace back only while the class run that
\* follows is shorter than 8.
LabeledMatch(s) ==
  Bind({ p \in 1 .. Len(s) :
           PhoneLabelAt(s, p) /\ RunLen(s, p + 6, PhoneClass) >= 8 },
       LAMBDA starts :
         IF starts = {} THEN null
         ELSE Bind(CHOOSE q \in starts : \A r \in starts : q <= r,
                   LAMBDA p :
                     LET run == RunLen(s, p + 6, PhoneClass)
                         ws  == RunLen(s, p + 6, WhiteSpace)
                         k   == Min(ws, run - 8)
                     IN  SubSeq(s, p + 6 + k, p + 5 + run)))

\* Backtracking: each pattern element maps a position to the positions it
\* can end at, in the order the engine tries them.
RECURSIVE Flatten(_)
Flatten(ss) == IF Len(ss) = 0 THEN <<>> ELSE Head(ss) \o Flatten(Tail(ss))

\* \d{lo,hi}, greedy
GreedyDigits(s, p, lo, hi) ==
  LET n == Min(hi, RunLen(s, p, Digits))
  IN  IF n < lo THEN <<>> ELSE [i \in 1 .. (n - lo + 1) |-> p + n - (i - 1)]

\* \d{lo,hi}?, lazy
LazyDigits(s, p, lo, hi) ==
  LET n == Min(hi, RunLen(s, p, Digits))
  IN  IF n < lo THEN <<>> ELSE [i \in 1 .. (n - lo + 1) |-> p + lo + (i - 1)]

\* [class]?, greedy
Optional(s, p, class) ==
  IF p <= Len(s) /\ CharAt(s, p) \in class THEN <<p + 1, p>> ELSE <<p>>

\* End positions (exclusive) of
\* \+\d{1,3}[-.\s]?\(?\d{1,4}?\)?[-.\s]?\d{1,4}[-.\s]?\d{1,9} started at p
BareEnds(s, p) ==
  LET e0 == IF p <= Len(s) /\ CharAt(s, p) = "+" THEN <<p + 1>> ELSE <<>>
      e1 == Flatten([i \in 1 .. Len(e0) |-> GreedyDigits(s, e0[i], 1, 3)])
      e2 == Flatten([i \in 1 .. Len(e1) |-> Optional(s, e1[i], SepClass)])
      e3 == Flatten([i \in 1 .. Len(e2) |-> Optional(s, e2[i], {"("})])
      e4 == Flatten([i \in 1 .. Len(e3) |-> LazyDigits(s, e3[i], 1, 4)])
      e5 == Flatten([i \in 1 .. Len(e4) |-> Optional(s, e4[i], {")"})])
      e6 == Flatten([i \in 1 .. Len(e5) |-> Optional(s, e5[i], SepClass)])
      e7 == Flatten([i \in 1 .. Len(e6) |-> GreedyDigits(s, e6[i], 1, 4)])
      e8 == Flatten([i \in 1 .. Len(e7) |-> Optional(s, e7[i], SepClass)])
  IN  Flatten([i \in 1 .. Len(e8) |-> GreedyDigits(s, e8[i], 1, 9)])

\* snippet.match(/(\+\d{1,3}...\d{1,9})/): capture group 1, or null
BareMatch(s) ==
  Bind({ p \in 1 .. Len(s) : Len(BareEnds(s, p)) > 0 },
       LAMBDA starts :
         IF starts = {} THEN null
         ELSE Bind(CHOOSE q \in starts : \A r \in starts : q <= r,
                   LAMBDA p : SubSeq(s, p, BareEnds(s, p)[1] - 1)))

\* the two patterns tried in the other order
PhoneMatch_BareFirst(snippet) ==
  Bind(BareMatch(snippet),
       LAMBDA bare : IF bare # null THEN bare ELSE LabeledMatch(snippet))

\* the labeled pattern || the bare pattern
PhoneMatch(snippet) ==
  Bind(LabeledMatch(snippet),
       LAMBDA labeled : IF labeled # null THEN labeled ELSE BareMatch(snippet))

HasMaps(chunk)  == "maps" \in DOMAIN chunk
HasTitle(chunk) ==
  HasMaps(chunk) /\ "title" \in DOMAIN chunk.maps /\ chunk.maps.title # ""

\* the callback searching the whole text after the title, not a window of it
EnrichChunk_NoWindow(text, chunk) ==
  IF ~HasTitle(chunk) THEN chunk
  ELSE Bind(IndexOf(text, chunk.maps.title),
         LAMBDA titleIndex :
           IF titleIndex = 0 THEN chunk
           ELSE Bind(PhoneMatch(SubSeq(text, titleIndex, Len(text))),
                  LAMBDA m :
                    IF m # null /\ m # ""
                    THEN [chunk EXCEPT !.maps =
                            ("phoneNumber" :> Trim(m)) @@ chunk.maps]
                    ELSE chunk))

\* the callback giving every place an (empty) phoneNumber when none is found
EnrichChunk_EmptyPhone(text, chunk) ==
  IF ~HasMaps(chunk) THEN chunk
  ELSE Bind(IF HasTitle(chunk) /\ IndexOf(text, chunk.maps.title) # 0
            THEN PhoneMatch(SubSeq(text, IndexOf(text, chunk.maps.title),
                                   Min(Len(text), IndexOf(text, chunk.maps.title)
                                                    + SnippetWindow - 1)))
            ELSE null,
         LAMBDA m :
           [chunk EXCEPT !.maps =
              ("phoneNumber" :> (IF m = null THEN "" ELSE Trim(m))) @@ chunk.maps])

\* the callback of rawChunks.map
EnrichChunk(text, chunk) ==
  IF ~HasTitle(chunk) THEN chunk
  ELSE Bind(IndexOf(text, chunk.maps.title),
         LAMBDA titleIndex :
           IF titleIndex = 0 THEN chunk
           ELSE Bind(SubSeq(text, titleIndex,
                            Min(Len(text), titleIndex + SnippetWindow - 1)),
                  LAMBDA snippet :
                    Bind(PhoneMatch(snippet),
                      LAMBDA m :
                        IF m # null /\ m # ""
                        THEN [chunk EXCEPT !.maps =
                                ("phoneNumber" :> Trim(m)) @@ chunk.maps]
                        ELSE chunk)))

\* the parser without `|| "I couldn't identify the dish."`
identifyDishAndFindPlaces_NoFallback(response) ==
  Bind(IF response.text = null THEN "" ELSE response.text,
    LAMBDA text :
      Bind(NonBlank(Split(text, "\n")),
        LAMBDA lines :
          [ dishName        |->
              Bind(IF Len(lines) > 0
                   THEN Trim(RemoveChars(lines[1], {"*", "#"})) ELSE "",
                   LAMBDA first : IF first = "" THEN FallbackDishName ELSE first),
            description     |->
              Bind(Trim(Join(Slice(lines, 1, 4), " ")),
                   LAMBDA rest : IF rest = "" THEN FallbackDescription ELSE rest),
            groundingChunks |-> [i \in 1 .. Len(response.chunks) |->
                                   EnrichChunk(text, response.chunks[i])],
            rawText         |-> text ]))

\* the value the promise resolves with, for a response of the model
\* (response.text is null when missing; groundingChunks is <<>> when missing)
identifyDishAndFindPlaces(response) ==
  Bind(IF response.text = null \/ response.text = ""
       THEN FallbackText ELSE response.text,
    LAMBDA text :
      Bind(NonBlank(Split(text, "\n")),
        LAMBDA lines :
          [ dishName        |->
              Bind(IF Len(lines) > 0
                   THEN Trim(RemoveChars(lines[1], {"*", "#"})) ELSE "",
                   LAMBDA first : IF first = "" THEN FallbackDishName ELSE first),
            description     |->
              Bind(Trim(Join(Slice(lines, 1, 4), " ")),
                   LAMBDA rest : IF rest = "" THEN FallbackDescription ELSE rest),
            groundingChunks |-> [i \in 1 .. Len(response.chunks) |->
                                   EnrichChunk(text, response.chunks[i])],
            rawText         |-> text ]))

(***************************************************************************)
(* Environment of the component.                                           *)
(***************************************************************************)
\* what the hosted model may answer: free text and grounding chunks
Responses ==
  { [ text   |-> "Spicy Tonkotsu Ramen\nRich pork broth with noodles.\nNoodle House Phone: +971501234567",
      chunks |-> << [maps |-> [uri |-> "https://maps/1", title |-> "Noodle House"]],
                    [maps |-> [uri |-> "https://maps/2", title |-> "Cafe X"]] >> ],
    [ text   |-> null,
      chunks |-> << >> ] }

\* Responses that exercise the enrichment: the text names the place and then
\* carries up to two phone fragments at chosen distances from the title.
PlaceTitle == "Noodle House"

LabeledNumber == "0412345678"
ShortNumber   == "19991"
BareNumber    == "+971501234567"

Labeled(number) == "Phone: " \o number

RECURSIVE Filler(_)
Filler(n) ==
  IF n = 0 THEN ""
  ELSE IF n = 1 THEN "x"
  ELSE LET h == Filler(n \div 2)
       IN  h \o h \o (IF n % 2 = 1 THEN "x" ELSE "")

\* distances between the end of the title and the first fragment: the
\* fragment starts at offset 12 + gap from the title, around the window's end
FirstGaps  == {1, 376, 383, 388, 389}
SecondGaps == {1, 380}
FirstFragments  == {Labeled(LabeledNumber), Labeled(ShortNumber), BareNumber}
SecondFragments == {"", Labeled(LabeledNumber), BareNumber}

PlaceText(g1, f1, g2, f2) ==
  "Spicy Tonkotsu Ramen\nRich pork broth.\n" \o PlaceTitle \o Filler(g1) \o f1
     \o Filler(g2) \o f2

\* grounding chunks as the service returns them: a place with a title found
\* in the text, a web result, a place without a title, a place with an empty
\* title, and a place the text does not name
PlaceChunks ==
  << [maps |-> [uri |-> "https://maps/1", title |-> PlaceTitle, placeId |-> "p1"]],
     [web  |-> [uri |-> "https://example.com", title |-> PlaceTitle]],
     [maps |-> [uri |-> "https://maps/3"]],
     [maps |-> [uri |-> "https://maps/4", title |-> ""]],
     [maps |-> [uri |-> "https://maps/2", title |-> "Cafe X"]] >>

EmptyTexts == {null, ""}

ParseResponses ==
  { [text |-> PlaceText(g1, f1, g2, f2), chunks |-> PlaceChunks] :
      g1 \in FirstGaps, f1 \in FirstFragments,
      g2 \in SecondGaps, f2 \in SecondFragments }
  \cup { [text |-> t, chunks |-> c] : t \in EmptyTexts, c \in {<< >>, PlaceChunks} }

\* what the AI call resolves with for each of them, evaluated once
Resolved == [response \in Responses |-> identifyDishAndFindPlaces(response)]

\* canvas.toDataURL('image/jpeg', 0.85) of the decoded file
convertToJpeg(file) == "data:image/jpeg;base64," \o "/9j/" \o file

\* the public URL apiService.uploadDishImage resolves with, for the upload
\* started by scan n
UploadUrl(n) == "https://cdn.dishout/dish-" \o ToString(n) \o ".jpg"

(***************************************************************************)
(* State.                                                                  *)
(***************************************************************************)
VARIABLES
  currentPage,        \* useState('home')
  appState,           \* useState(AppState.IDLE)
  imagePreview,       \* data URI or null
  uploadedImageUrl,   \* URL or null
  analysisResult,     \* DishAnalysisResult or nil
  location,           \* LocationData or nil (undefined)
  errorMsg,           \* message or null
  showDeliveryModal,  \* BOOLEAN
  pendingOrder,       \* [phone, title] or nil
  currentUser,        \* useAuth().currentUser: a user or nil
  pickerOpen,         \* the file dialog opened by fileInputRef.current.click()
  pipelines,          \* scans whose handleFileChange / processImage is suspended at an await
  uploads,            \* scans whose background upload has not settled
  scans,              \* number of file selections so far
  alerts,             \* number of alert() notices shown
  outbound,           \* lead-tracking calls and opened deep links, in order
  leadsInFlight,      \* number of trackLead calls that have not settled
  captureUser,        \* currentUser seen by the last handleCapture, notYet before it
  trace               \* events of the latest scan, in order

vars == << currentPage, appState, imagePreview, uploadedImageUrl, analysisResult,
           location, errorMsg, showDeliveryModal, pendingOrder, currentUser,
           pickerOpen, pipelines, uploads, scans, alerts, outbound,
           leadsInFlight, captureUser, trace >>

uiVars    == << currentPage, appState, imagePreview, uploadedImageUrl,
                analysisResult, location, errorMsg >>
orderVars == << showDeliveryModal, pendingOrder, alerts, outbound, leadsInFlight >>
asyncVars == << pipelines, uploads, scans, trace >>

Event(n, ev, arg) == [scan |-> n, ev |-> ev, arg |-> arg]

Init ==
  /\ currentPage = "home"
  /\ appState = IDLE
  /\ imagePreview = null
  /\ uploadedImageUrl = null
  /\ analysisResult = nil
  /\ location = nil
  /\ errorMsg = null
  /\ showDeliveryModal = FALSE
  /\ pendingOrder = nil
  /\ currentUser \in Users \cup {nil}
  /\ pickerOpen = FALSE
  /\ pipelines = {}
  /\ uploads = {}
  /\ scans = 0
  /\ alerts = 0
  /\ outbound = << >>
  /\ leadsInFlight = 0
  /\ captureUser = notYet
  /\ trace = << >>

(***************************************************************************)
(* What is on screen (renderContent).                                      *)
(***************************************************************************)
\* <main> is rendered
HomeShown == currentPage = "home"
\* the IDLE block: the capture button and the file input
IdleShown == HomeShown /\ appState = IDLE
\* the RESULTS block: the chunk cards and "Scan Another Dish"
ResultsShown == HomeShown /\ appState = RESULTS /\ analysisResult # nil
\* the ERROR block: the message and "Try Again"
ErrorShown == HomeShown /\ appState = ERROR
\* DeliverySelector with isOpen
ModalShown == HomeShown /\ showDeliveryModal
\* the user can reach the page: no file dialog and no modal is in front of it
PageReachable == ~pickerOpen /\ ~showDeliveryModal

(***************************************************************************)
(* Capture and file selection.                                             *)
(***************************************************************************)
\* handleCapture without the currentUser check
handleCapture_NoAuthCheck ==
  /\ IdleShown /\ PageReachable
  /\ errorMsg' = null
  /\ captureUser' = currentUser
  /\ pickerOpen' = TRUE
  /\ UNCHANGED << currentPage, appState, imagePreview, uploadedImageUrl,
                  analysisResult, location, orderVars, currentUser, asyncVars >>

\* onClick of the capture button
handleCapture ==
  /\ IdleShown /\ PageReachable
  /\ errorMsg' = null
  /\ captureUser' = currentUser
  /\ IF currentUser = nil
     THEN /\ currentPage' = "auth"
          /\ UNCHANGED pickerOpen
     ELSE /\ pickerOpen' = TRUE          \* fileInputRef.current.click()
          /\ UNCHANGED currentPage
  /\ UNCHANGED << appState, imagePreview, uploadedImageUrl, analysisResult,
                  location, orderVars, currentUser, asyncVars >>

\* the dialog is closed without a file: no change event, or files is empty
filePickerCancel ==
  /\ pickerOpen
  /\ pickerOpen' = FALSE
  /\ UNCHANGED << uiVars, orderVars, currentUser, asyncVars, captureUser >>

\* onChange of the file input, up to the first await
handleFileChange(file) ==
  /\ pickerOpen /\ IdleShown
  /\ scans < MaxScans
  /\ pickerOpen' = FALSE
  /\ scans' = scans + 1
  /\ appState' = ANALYZING
  /\ uploadedImageUrl' = null
  /\ pipelines' = pipelines \cup
       { [scan |-> scans + 1, pc |-> "convertToJpeg", file |-> file,
          base64Full |-> null, locData |-> nil] }
  /\ trace' = << Event(scans + 1, "select", captureUser) >>
  /\ UNCHANGED << currentPage, imagePreview, analysisResult, location, errorMsg,
                  orderVars, currentUser, uploads, captureUser >>

\* convertToJpeg resolved: preview, background upload, processImage up to
\* its await of getLocation
convertResolved(p) ==
  /\ p \in pipelines /\ p.pc = "convertToJpeg"
  /\ LET base64Jpeg == convertToJpeg(p.file)
     IN  /\ imagePreview' = base64Jpeg
         /\ uploads' = uploads \cup {p.scan}
         /\ pipelines' = (pipelines \ {p}) \cup
              { [p EXCEPT !.pc = "getLocation", !.base64Full = base64Jpeg] }
         /\ trace' = trace \o << Event(p.scan, "normalized", nil),
                                 Event(p.scan, "uploadDishImage", nil),
                                 Event(p.scan, "getLocation", nil) >>
  /\ UNCHANGED << currentPage, appState, uploadedImageUrl, analysisResult,
                  location, errorMsg, orderVars, currentUser, pickerOpen,
                  scans, captureUser >>

\* the catch of handleFileChange setting the state but no message
convertRejected_NoMessage(p) ==
  /\ p \in pipelines /\ p.pc = "convertToJpeg"
  /\ appState' = ERROR
  /\ pipelines' = pipelines \ {p}
  /\ trace' = Append(trace, Event(p.scan, "normalizeFailed", nil))
  /\ UNCHANGED << currentPage, imagePreview, uploadedImageUrl, analysisResult,
                  location, errorMsg, orderVars, currentUser, pickerOpen,
                  uploads, scans, captureUser >>

\* processImage called after the try/catch instead of inside the try
convertRejected_StillProcesses(p) ==
  /\ p \in pipelines /\ p.pc = "convertToJpeg"
  /\ errorMsg' = "Unable to process image."
  /\ appState' = ERROR
  /\ pipelines' = (pipelines \ {p}) \cup { [p EXCEPT !.pc = "getLocation"] }
  /\ trace' = trace \o << Event(p.scan, "normalizeFailed", nil),
                          Event(p.scan, "getLocation", nil) >>
  /\ UNCHANGED << currentPage, imagePreview, uploadedImageUrl, analysisResult,
                  location, orderVars, currentUser, pickerOpen, uploads,
                  scans, captureUser >>

\* convertToJpeg rejected: the catch of handleFileChange
convertRejected(p) ==
  /\ p \in pipelines /\ p.pc = "convertToJpeg"
  /\ errorMsg' = "Unable to process image."
  /\ appState' = ERROR
  /\ pipelines' = pipelines \ {p}
  /\ trace' = Append(trace, Event(p.scan, "normalizeFailed", nil))
  /\ UNCHANGED << currentPage, imagePreview, uploadedImageUrl, analysisResult,
                  location, orderVars, currentUser, pickerOpen, uploads,
                  scans, captureUser >>

\* base64Full.split(',')[1]
Base64Data(base64Full) ==
  Bind(Split(base64Full, ","),
       LAMBDA parts : IF Len(parts) >= 2 THEN parts[2] ELSE null)

\* getLocation resolved: setLocation, then the AI call is issued
locationResolved(p, locData) ==
  /\ p \in pipelines /\ p.pc = "getLocation"
  /\ location' = locData
  /\ pipelines' = (pipelines \ {p}) \cup
       { [p EXCEPT !.pc = "identifyDishAndFindPlaces", !.locData = locData] }
  /\ trace' = trace \o
       << Event(p.scan, "located", locData),
          Event(p.scan, "identifyDishAndFindPlaces",
                [base64Image |-> Base64Data(p.base64Full),
                 mimeType |-> "image/jpeg", location |-> locData]) >>
  /\ UNCHANGED << currentPage, appState, imagePreview, uploadedImageUrl,
                  analysisResult, errorMsg, orderVars, currentUser, pickerOpen,
                  uploads, scans, captureUser >>

\* getLocation awaited without the inner try/catch
locationRejected_Fatal(p, why) ==
  /\ p \in pipelines /\ p.pc = "getLocation"
  /\ errorMsg' = "Something went wrong."
  /\ appState' = ERROR
  /\ pipelines' = pipelines \ {p}
  /\ trace' = Append(trace, Event(p.scan, "locationFailed", nil))
  /\ UNCHANGED << currentPage, imagePreview, uploadedImageUrl, analysisResult,
                  location, orderVars, currentUser, pickerOpen, uploads, scans,
                  captureUser >>

\* getLocation rejected: the inner catch, then the AI call is issued
\* a lookup whose failure is never reported: the awaiting pipeline is lost
locationRejected_NeverSettles(p, why) ==
  /\ p \in pipelines /\ p.pc = "getLocation"
  /\ pipelines' = pipelines \ {p}
  /\ trace' = Append(trace, Event(p.scan, "locationFailed", nil))
  /\ UNCHANGED << uiVars, orderVars, currentUser, pickerOpen, uploads, scans,
                  captureUser >>

locationRejected(p, why) ==
  /\ p \in pipelines /\ p.pc = "getLocation"
  /\ pipelines' = (pipelines \ {p}) \cup
       { [p EXCEPT !.pc = "identifyDishAndFindPlaces"] }
  /\ trace' = trace \o
       << Event(p.scan, "locationFailed", nil),
          Event(p.scan, "identifyDishAndFindPlaces",
                [base64Image |-> Base64Data(p.base64Full),
                 mimeType |-> "image/jpeg", location |-> p.locData]) >>
  /\ UNCHANGED << uiVars, orderVars, currentUser, pickerOpen, uploads, scans,
                  captureUser >>

\* the AI call resolved with the parsed result
analysisResolved(p, result) ==
  /\ p \in pipelines /\ p.pc = "identifyDishAndFindPlaces"
  /\ analysisResult' = result
  /\ appState' = RESULTS
  /\ pipelines' = pipelines \ {p}
  /\ trace' = Append(trace, Event(p.scan, "analyzed", nil))
  /\ UNCHANGED << currentPage, imagePreview, uploadedImageUrl, location,
                  errorMsg, orderVars, currentUser, pickerOpen, uploads, scans,
                  captureUser >>

\* AIService returning what it has instead of rethrowing
analysisRejected_PartialResult(p) ==
  /\ p \in pipelines /\ p.pc = "identifyDishAndFindPlaces"
  /\ analysisResult' = [ dishName |-> FallbackDishName, description |-> "",
                         groundingChunks |-> << >>, rawText |-> "" ]
  /\ errorMsg' = AnalysisFailedMsg
  /\ appState' = ERROR
  /\ pipelines' = pipelines \ {p}
  /\ trace' = Append(trace, Event(p.scan, "analysisFailed", nil))
  /\ UNCHANGED << currentPage, imagePreview, uploadedImageUrl, location,
                  orderVars, currentUser, pickerOpen, uploads, scans,
                  captureUser >>

\* the AI call rejected: AIService rethrows, processImage catches
\* a catch block that issues the AI call once more before giving up
analysisRejected_RetriesOnce(p) ==
  /\ p \in pipelines /\ p.pc = "identifyDishAndFindPlaces"
  /\ IF \E k \in 1 .. Len(trace) : trace[k].ev = "analysisFailed"
     THEN /\ errorMsg' = AnalysisFailedMsg
          /\ appState' = ERROR
          /\ pipelines' = pipelines \ {p}
          /\ trace' = Append(trace, Event(p.scan, "analysisFailed", nil))
     ELSE /\ trace' = trace \o
               << Event(p.scan, "analysisFailed", nil),
                  Event(p.scan, "identifyDishAndFindPlaces",
                        [base64Image |-> Base64Data(p.base64Full),
                         mimeType |-> "image/jpeg", location |-> p.locData]) >>
          /\ UNCHANGED << errorMsg, appState, pipelines >>
  /\ UNCHANGED << currentPage, imagePreview, uploadedImageUrl, analysisResult,
                  location, orderVars, currentUser, pickerOpen, uploads, scans,
                  captureUser >>

analysisRejected(p) ==
  /\ p \in pipelines /\ p.pc = "identifyDishAndFindPlaces"
  /\ errorMsg' = (IF AnalysisFailedMsg # "" THEN AnalysisFailedMsg
                  ELSE "Something went wrong.")
  /\ appState' = ERROR
  /\ pipelines' = pipelines \ {p}
  /\ trace' = Append(trace, Event(p.scan, "analysisFailed", nil))
  /\ UNCHANGED << currentPage, imagePreview, uploadedImageUrl, analysisResult,
                  location, orderVars, currentUser, pickerOpen, uploads, scans,
                  captureUser >>

\* apiService.uploadDishImage(...).then(url => setUploadedImageUrl(url))
uploadResolved(n) ==
  /\ n \in uploads
  /\ uploadedImageUrl' = UploadUrl(n)
  /\ uploads' = uploads \ {n}
  /\ UNCHANGED << currentPage, appState, imagePreview, analysisResult, location,
                  errorMsg, orderVars, currentUser, pickerOpen, pipelines,
                  scans, captureUser, trace >>

\* the upload awaited inside the try of handleFileChange
uploadRejected_Fatal(n) ==
  /\ n \in uploads
  /\ uploads' = uploads \ {n}
  /\ errorMsg' = "Unable to process image."
  /\ appState' = ERROR
  /\ UNCHANGED << currentPage, imagePreview, uploadedImageUrl, analysisResult,
                  location, orderVars, currentUser, pickerOpen, pipelines, scans,
                  captureUser, trace >>

\* .catch(err => console.error(...))
uploadRejected(n) ==
  /\ n \in uploads
  /\ uploads' = uploads \ {n}
  /\ UNCHANGED << uiVars, orderVars, currentUser, pickerOpen, pipelines, scans,
                  captureUser, trace >>

\* resetApp without setAnalysisResult(null)
resetApp_KeepsResult ==
  /\ (ResultsShown \/ ErrorShown) /\ PageReachable
  /\ appState' = IDLE
  /\ imagePreview' = null
  /\ uploadedImageUrl' = null
  /\ errorMsg' = null
  /\ UNCHANGED << currentPage, analysisResult, location, orderVars, currentUser,
                  pickerOpen, asyncVars, captureUser >>

\* "Scan Another Dish" / "Try Again"
\* a reset that is also offered while the scan is running
resetApp_WhileAnalyzing ==
  /\ (ResultsShown \/ ErrorShown \/ (HomeShown /\ appState = ANALYZING))
  /\ PageReachable
  /\ appState' = IDLE
  /\ imagePreview' = null
  /\ analysisResult' = nil
  /\ uploadedImageUrl' = null
  /\ errorMsg' = null
  /\ UNCHANGED << currentPage, location, orderVars, currentUser, pickerOpen,
                  asyncVars, captureUser >>

\* a reset button that stays reachable in front of the delivery modal
resetApp_ModalOpen ==
  /\ (ResultsShown \/ ErrorShown) /\ ~pickerOpen
  /\ appState' = IDLE
  /\ imagePreview' = null
  /\ analysisResult' = nil
  /\ uploadedImageUrl' = null
  /\ errorMsg' = null
  /\ UNCHANGED << currentPage, location, orderVars, currentUser, pickerOpen,
                  asyncVars, captureUser >>

resetApp ==
  /\ (ResultsShown \/ ErrorShown) /\ PageReachable
  /\ appState' = IDLE
  /\ imagePreview' = null
  /\ analysisResult' = nil
  /\ uploadedImageUrl' = null
  /\ errorMsg' = null
  /\ UNCHANGED << currentPage, location, orderVars, currentUser, pickerOpen,
                  asyncVars, captureUser >>

(***************************************************************************)
(* Lead / order relay.                                                     *)
(***************************************************************************)
\* chunk.maps?.phoneNumber and chunk.maps?.title
ChunkPhone(chunk) ==
  IF HasMaps(chunk) /\ "phoneNumber" \in DOMAIN chunk.maps
  THEN chunk.maps.phoneNumber ELSE null
ChunkTitle(chunk) ==
  IF HasMaps(chunk) /\ "title" \in DOMAIN chunk.maps
  THEN chunk.maps.title ELSE null

\* !phone
Falsy(str) == str = null \/ str = ""

Letters ==
  { "a", "b", "c", "d", "e", "f", "g", "h", "i", "j", "k", "l", "m", "n", "o",
    "p", "q", "r", "s", "t", "u", "v", "w", "x", "y", "z",
    "A", "B", "C", "D", "E", "F", "G", "H", "I", "J", "K", "L", "M", "N", "O",
    "P", "Q", "R", "S", "T", "U", "V", "W", "X", "Y", "Z" }

\* characters encodeURIComponent leaves alone
Unreserved == Letters \cup Digits \cup {"-", "_", ".", "!", "~", "*", "'", "(", ")"}

PercentCode(c) ==
  CASE c = " "  -> "%20"
    [] c = ","  -> "%2C"
    [] c = ":"  -> "%3A"
    [] c = "/"  -> "%2F"
    [] c = "+"  -> "%2B"
    [] c = "#"  -> "%23"
    [] c = "&"  -> "%26"
    [] c = "\n" -> "%0A"

\* character by character; the string is halved to keep the evaluation shallow
RECURSIVE encodeURIComponent(_)
encodeURIComponent(s) ==
  IF Len(s) = 0 THEN ""
  ELSE IF Len(s) = 1 THEN (IF s \in Unreserved THEN s ELSE PercentCode(s))
  ELSE LET h == Len(s) \div 2
       IN  encodeURIComponent(SubSeq(s, 1, h)) \o encodeURIComponent(SubSeq(s, h + 1, Len(s)))

\* pendingOrder.phone.replace(/\D/g, '')
CleanPhone(phone) == RemoveChars(phone, NonDigits(phone))

\* the chunk cards rendered by groundingChunks.map
ChunkIndices ==
  IF analysisResult = nil THEN {} ELSE DOMAIN analysisResult.groundingChunks

\* handleWhatsAppClick without the !phone refusal
handleWhatsAppClick_NoPhoneCheck(i) ==
  /\ ResultsShown /\ PageReachable
  /\ i \in 1 .. Len(analysisResult.groundingChunks)
  /\ LET chunk == analysisResult.groundingChunks[i]
         phone == ChunkPhone(chunk)
         title == ChunkTitle(chunk)
     IN  /\ pendingOrder' =
              [phone |-> phone,
               title |-> IF Falsy(title) THEN "Unknown Restaurant" ELSE title]
         /\ showDeliveryModal' = TRUE
  /\ UNCHANGED << uiVars, alerts, outbound, leadsInFlight, currentUser,
                  pickerOpen, asyncVars, captureUser >>

\* onClick of "WhatsApp Order" on the i-th chunk card
handleWhatsAppClick(i) ==
  /\ ResultsShown /\ PageReachable
  /\ i \in 1 .. Len(analysisResult.groundingChunks)
  /\ LET chunk == analysisResult.groundingChunks[i]
         phone == ChunkPhone(chunk)
         title == ChunkTitle(chunk)
     IN  IF Falsy(phone)
         THEN /\ alerts < MaxAlerts
              /\ alerts' = alerts + 1
              /\ UNCHANGED << pendingOrder, showDeliveryModal >>
         ELSE /\ pendingOrder' =
                   [phone |-> phone,
                    title |-> IF Falsy(title) THEN "Unknown Restaurant" ELSE title]
              /\ showDeliveryModal' = TRUE
              /\ UNCHANGED alerts
  /\ UNCHANGED << uiVars, outbound, leadsInFlight, currentUser, pickerOpen,
                  asyncVars, captureUser >>

\* handleDeliverySelection awaiting trackLead before it opens the link: the
\* lead call is issued, the rest waits for its promise
handleDeliverySelection_AwaitsLead(provider) ==
  /\ ModalShown /\ ~pickerOpen
  /\ pendingOrder # nil
  /\ Len(outbound) < 2 * MaxOrders
  /\ outbound' = outbound \o
       << [ kind            |-> "trackLead",
            dishName        |-> IF analysisResult # nil THEN analysisResult.dishName
                                ELSE FallbackDishName,
            restaurantName  |-> pendingOrder.title,
            restaurantPhone |-> CleanPhone(pendingOrder.phone),
            userEmail       |-> IF currentUser = nil THEN null ELSE currentUser.email,
            dishImageUrl    |-> uploadedImageUrl ] >>
  /\ leadsInFlight' = leadsInFlight + 1
  /\ UNCHANGED << uiVars, showDeliveryModal, pendingOrder, alerts, currentUser,
                  pickerOpen, asyncVars, captureUser >>

\* onSelect of DeliverySelector
handleDeliverySelection(provider) ==
  /\ ModalShown /\ ~pickerOpen
  /\ IF pendingOrder = nil
     THEN UNCHANGED << showDeliveryModal, pendingOrder, outbound, leadsInFlight >>
     ELSE LET cleanPhone == CleanPhone(pendingOrder.phone)
              dishName   == IF analysisResult # nil /\ analysisResult.dishName # ""
                            THEN analysisResult.dishName ELSE FallbackDishName
              base       == "Hello, I found " \o pendingOrder.title
                            \o " on DishOut. I'd like to order " \o dishName
                            \o " via " \o provider \o "."
              message    == IF ~Falsy(uploadedImageUrl)
                            THEN base \o " Dish Reference: " \o uploadedImageUrl
                            ELSE base
              whatsappUrl == "https://wa.me/" \o cleanPhone \o "?text="
                             \o encodeURIComponent(message)
              lead       == [ kind            |-> "trackLead",
                              dishName        |-> dishName,
                              restaurantName  |-> pendingOrder.title,
                              restaurantPhone |-> cleanPhone,
                              userEmail       |-> IF currentUser = nil THEN null
                                                  ELSE currentUser.email,
                              dishImageUrl    |-> uploadedImageUrl ]
              open       == [ kind |-> "open", url |-> whatsappUrl ]
          IN  /\ Len(outbound) < 2 * MaxOrders
              /\ outbound' = outbound \o << lead, open >>
              /\ leadsInFlight' = leadsInFlight + 1
              /\ showDeliveryModal' = FALSE
              /\ pendingOrder' = nil
  /\ UNCHANGED << uiVars, alerts, currentUser, pickerOpen, asyncVars, captureUser >>

\* onClose of DeliverySelector
deliveryModalClose ==
  /\ ModalShown /\ ~pickerOpen
  /\ showDeliveryModal' = FALSE
  /\ UNCHANGED << uiVars, pendingOrder, alerts, outbound, leadsInFlight,
                  currentUser, pickerOpen, asyncVars, captureUser >>

\* the promise of apiService.trackLead settles; nothing is chained to it
leadSettled(outcome) ==
  /\ leadsInFlight > 0
  /\ outcome \in {"resolved", "rejected"}
  /\ leadsInFlight' = leadsInFlight - 1
  /\ UNCHANGED << uiVars, showDeliveryModal, pendingOrder, alerts, outbound,
                  currentUser, pickerOpen, asyncVars, captureUser >>

(***************************************************************************)
(* Navigation and session.                                                 *)
(***************************************************************************)
\* Navbar: setCurrentPage(page)
navigate(page) ==
  /\ PageReachable
  /\ page # currentPage
  /\ currentPage' = page
  /\ UNCHANGED << appState, imagePreview, uploadedImageUrl, analysisResult,
                  location, errorMsg, orderVars, currentUser, pickerOpen,
                  asyncVars, captureUser >>

\* AuthForm onSuccess: the session is signed in, back to home
authSuccess(user) ==
  /\ PageReachable
  /\ currentPage = "auth"
  /\ currentUser' = user
  /\ currentPage' = "home"
  /\ UNCHANGED << appState, imagePreview, uploadedImageUrl, analysisResult,
                  location, errorMsg, orderVars, pickerOpen, asyncVars,
                  captureUser >>

\* the session ends (AuthContext)
signOut ==
  /\ PageReachable
  /\ currentUser # nil
  /\ currentUser' = nil
  /\ UNCHANGED << uiVars, orderVars, pickerOpen, asyncVars, captureUser >>

(***************************************************************************)
(* Specification.                                                          *)
(***************************************************************************)
Next ==
  \/ handleCapture
  \/ filePickerCancel
  \/ \E file \in Files : handleFileChange(file)
  \/ \E p \in pipelines : convertResolved(p)
  \/ \E p \in pipelines : convertRejected(p)
  \/ \E p \in pipelines, locData \in Locations : locationResolved(p, locData)
  \/ \E p \in pipelines, why \in LocationFailures : locationRejected(p, why)
  \/ \E p \in pipelines, response \in Responses :
       analysisResolved(p, Resolved[response])
  \/ \E p \in pipelines : analysisRejected(p)
  \/ \E n \in uploads : uploadResolved(n)
  \/ \E n \in uploads : uploadRejected(n)
  \/ resetApp
  \/ \E i \in ChunkIndices : handleWhatsAppClick(i)
  \/ \E provider \in Providers : handleDeliverySelection(provider)
  \/ deliveryModalClose
  \/ \E outcome \in {"resolved", "rejected"} : leadSettled(outcome)
  \/ \E page \in Pages : navigate(page)
  \/ \E user \in Users : authSuccess(user)
  \/ signOut

Spec == Init /\ [][Next]_vars

\* The promises a scan awaits settle: the image decodes or fails to, the
\* geolocation callbacks fire (or its 10 s timeout does), the AI call returns
\* or throws.
NormalizerSettles ==
  \E p \in pipelines : convertResolved(p) \/ convertRejected(p)

LocationSettles ==
  \E p \in pipelines :
    \/ \E locData \in Locations : locationResolved(p, locData)
    \/ \E why \in LocationFailures : locationRejected(p, why)

AnalysisSettles ==
  \E p \in pipelines :
    \/ \E response \in Responses : analysisResolved(p, Resolved[response])
    \/ analysisRejected(p)

FairSpec ==
  /\ Spec
  /\ WF_vars(NormalizerSettles)
  /\ WF_vars(LocationSettles)
  /\ WF_vars(AnalysisSettles)

\* One scan after another, the AI call answering with any of ParseResponses:
\* the specification under which the parsing and enrichment are examined.
ParseNext ==
  \/ handleCapture
  \/ \E user \in Users : authSuccess(user)
  \/ \E file \in Files : handleFileChange(file)
  \/ \E p \in pipelines : convertResolved(p)
  \/ \E p \in pipelines, locData \in Locations : locationResolved(p, locData)
  \/ \E p \in pipelines, why \in LocationFailures : locationRejected(p, why)
  \/ \E p \in pipelines, response \in ParseResponses :
       analysisResolved(p, identifyDishAndFindPlaces(response))
  \/ resetApp

ParseSpec == Init /\ [][ParseNext]_vars

(***************************************************************************)
(* Properties.                                                             *)
(***************************************************************************)
HasEvent(tr, ev) == \E k \in 1 .. Len(tr) : tr[k].ev = ev
\* the step appends the event to the trace of the running scan
Emits(ev) == HasEvent(trace', ev) /\ ~HasEvent(trace, ev)
LastEvent(tr) == tr[Len(tr)]

\* C1: in every reachable state analysisResult is non-null exactly when
\* appState is RESULTS.
C1_ResultIffResults == (analysisResult # nil) <=> (appState = RESULTS)

\* a second scan has produced a result after a reset
C1_Witness == appState = RESULTS /\ analysisResult # nil /\ scans >= 2

\* C2: in every reachable state errorMsg is non-null exactly when appState
\* is ERROR.
C2_ErrorIffError == (errorMsg # null) <=> (appState = ERROR)

\* both kinds of failure are reached
C2_Witness == appState = ERROR /\ errorMsg = AnalysisFailedMsg /\ scans >= 2

\* C3: an order click on a chunk without a phone number changes neither the
\* pending order nor the modal and issues no lead call and no deep link; and
\* whenever a lead call or a deep link is issued, the pending order carries a
\* phone number.
C3_OrderRefusal ==
  [][ /\ \A i \in ChunkIndices :
           (handleWhatsAppClick(i) /\ Falsy(ChunkPhone(analysisResult.groundingChunks[i])))
             => /\ UNCHANGED << pendingOrder, showDeliveryModal, outbound >>
                /\ alerts' = alerts + 1
      /\ (outbound' # outbound) => (pendingOrder # nil /\ ~Falsy(pendingOrder.phone))
    ]_vars

\* a click has been refused (the notice was shown) and nothing was ordered
C3_Witness ==
  alerts > 0 /\ pendingOrder = nil /\ ~showDeliveryModal /\ outbound = << >>

\* C4: when the normalizer fails, that step takes ANALYZING to ERROR, and a
\* scan whose normalizer failed has no location lookup and no AI call.
C4_NormalizerFailure ==
  [][ /\ Emits("normalizeFailed") => (appState = ANALYZING /\ appState' = ERROR)
      /\ HasEvent(trace', "normalizeFailed") =>
           /\ ~HasEvent(trace', "getLocation")
           /\ ~HasEvent(trace', "identifyDishAndFindPlaces")
           /\ appState' \in {ERROR, IDLE}
    ]_vars

\* the normalizer has failed and the error is shown
C4_Witness ==
  appState = ERROR /\ errorMsg = "Unable to process image." /\ pipelines = {}
  /\ HasEvent(trace, "normalizeFailed")

\* C5: a failed location lookup leaves appState ANALYZING and errorMsg null
\* and is followed at once by the AI call with location undefined; when that
\* AI call succeeds the scan is in RESULTS with no error.
C5_LocationFailureNonFatal ==
  [][ /\ Emits("locationFailed") =>
           /\ appState = ANALYZING /\ appState' = ANALYZING
           /\ errorMsg' = null
           /\ LastEvent(trace').ev = "identifyDishAndFindPlaces"
           /\ LastEvent(trace').arg.location = nil
      /\ (Emits("analyzed") /\ HasEvent(trace, "locationFailed")) =>
           (appState' = RESULTS /\ errorMsg' = null /\ analysisResult' # nil)
    ]_vars

\* a scan reached RESULTS without a location while an earlier scan had one
C5_Witness ==
  /\ appState = RESULTS /\ errorMsg = null
  /\ HasEvent(trace, "locationFailed")
  /\ location # nil

\* C6: when the AI call fails the scan is in ERROR with a message and no
\* result; a result and an error never coexist; a result always has all four
\* fields, with a dish name and a description.
C6_AllOrNothing ==
  [][ /\ Emits("analysisFailed") =>
           (appState' = ERROR /\ errorMsg' # null /\ analysisResult' = nil)
      /\ ~(analysisResult' # nil /\ errorMsg' # null)
      /\ analysisResult' # nil =>
           /\ DOMAIN analysisResult' =
                {"dishName", "description", "groundingChunks", "rawText"}
           /\ analysisResult'.dishName # ""
           /\ analysisResult'.description # ""
           /\ analysisResult'.rawText # ""
    ]_vars

\* the AI call of a scan has failed
C6_Witness ==
  /\ appState = ERROR /\ errorMsg = AnalysisFailedMsg /\ analysisResult = nil
  /\ HasEvent(trace, "analysisFailed")

\* what the settlement of an upload must leave alone
UploadFrame ==
  << currentPage, appState, imagePreview, analysisResult, location, errorMsg,
     orderVars, currentUser, pickerOpen, pipelines, scans, captureUser, trace >>

\* C7: in every reachable state, no settlement of a pending upload, success
\* or failure, can change anything but uploadedImageUrl (and the set of
\* pending uploads), and every awaited step of a running pipeline can settle,
\* either way, whatever the state of the uploads.
C7_UploadNeverGates ==
  /\ \A n \in uploads :
       /\ ENABLED uploadResolved(n)
       /\ ENABLED uploadRejected(n)
       /\ ~ENABLED (uploadResolved(n) /\ UploadFrame' # UploadFrame)
       /\ ~ENABLED (uploadRejected(n) /\ UploadFrame' # UploadFrame)
  /\ \A p \in pipelines :
       /\ p.pc = "convertToJpeg" =>
            (ENABLED convertResolved(p) /\ ENABLED convertRejected(p))
       /\ p.pc = "getLocation" =>
            /\ \A why \in LocationFailures : ENABLED locationRejected(p, why)
            /\ \A l \in Locations : ENABLED locationResolved(p, l)
       /\ p.pc = "identifyDishAndFindPlaces" =>
            /\ ENABLED analysisRejected(p)
            /\ \A r \in Responses : ENABLED analysisResolved(p, Resolved[r])
  /\ (appState = ANALYZING) => pipelines # {}

\* the scan has its result while its upload has not settled
C7_Witness == appState = RESULTS /\ scans \in uploads

\* C8 as stated: after a reset, until the next file selection (that is, while
\* IDLE), imagePreview, analysisResult, uploadedImageUrl and errorMsg are null.
C8_ResetStaysCleared ==
  (appState = IDLE /\ scans > 0) =>
    /\ imagePreview = null
    /\ analysisResult = nil
    /\ uploadedImageUrl = null
    /\ errorMsg = null

\* C9 as stated: the pending order is created by an order click on a chunk
\* with a phone number, and is null after a provider is chosen and after the
\* modal is dismissed.
C9_PendingOrderCleared ==
  [][ /\ (pendingOrder' # nil /\ pendingOrder' # pendingOrder) =>
           /\ ResultsShown
           /\ \E i \in ChunkIndices :
                /\ ~Falsy(ChunkPhone(analysisResult.groundingChunks[i]))
                /\ pendingOrder'.phone = ChunkPhone(analysisResult.groundingChunks[i])
      /\ (showDeliveryModal /\ ~showDeliveryModal') => pendingOrder' = nil
    ]_vars

\* C10: a capture request without a signed-in user goes to the auth page,
\* opens no file dialog and leaves appState alone; every entry into ANALYZING
\* is a file selection in the dialog opened by a capture request that saw a
\* signed-in user.
C10_CaptureRequiresAuth ==
  [][ /\ (handleCapture /\ currentUser = nil) =>
           (currentPage' = "auth" /\ ~pickerOpen' /\ appState' = appState)
      /\ (appState # ANALYZING /\ appState' = ANALYZING) =>
           /\ pickerOpen /\ ~pickerOpen'
           /\ captureUser \in Users
           /\ trace' = << Event(scans', "select", captureUser) >>
    ]_vars

\* an unauthenticated capture request has been redirected
C10_Witness ==
  /\ captureUser = nil /\ currentPage = "auth"
  /\ ~pickerOpen /\ appState = IDLE /\ scans = 0

\* C11: a provider selection with a pending order issues, in that one step,
\* exactly one lead-tracking call followed by exactly one deep link, closes
\* the modal and clears the pending order, without waiting for the lead call;
\* the log of outbound effects is always lead, open, lead, open, ...; and the
\* settlement of a lead call, either way, changes nothing else.
C11_LeadThenOpen ==
  [][ /\ \A provider \in Providers :
           (handleDeliverySelection(provider) /\ pendingOrder # nil) =>
             /\ Len(outbound') = Len(outbound) + 2
             /\ SubSeq(outbound', 1, Len(outbound)) = outbound
             /\ outbound'[Len(outbound) + 1].kind = "trackLead"
             /\ outbound'[Len(outbound) + 2].kind = "open"
             /\ leadsInFlight' = leadsInFlight + 1
             /\ ~showDeliveryModal'
             /\ pendingOrder' = nil
      /\ \A k \in 1 .. Len(outbound') :
           outbound'[k].kind = (IF k % 2 = 1 THEN "trackLead" ELSE "open")
      /\ Len(outbound') % 2 = 0
      /\ (leadsInFlight' < leadsInFlight) =>
           UNCHANGED << uiVars, showDeliveryModal, pendingOrder, alerts,
                        outbound, currentUser, pickerOpen, asyncVars,
                        captureUser >>
    ]_vars

\* the link was opened and the order cleared while the lead call is pending
C11_Witness ==
  /\ Len(outbound) = 2 /\ leadsInFlight = 1
  /\ ~showDeliveryModal /\ pendingOrder = nil

(***************************************************************************)
(* Parsing and enrichment, under ParseSpec.                                *)
(***************************************************************************)
HasPhone(chunk) == HasMaps(chunk) /\ "phoneNumber" \in DOMAIN chunk.maps

Contains(s, t) == IndexOf(s, t) # 0

\* the text the enrichment may look at for a title
Window(text, title) ==
  SubSeq(text, IndexOf(text, title),
         Min(Len(text), IndexOf(text, title) + SnippetWindow - 1))

\* the chunks of the result shown whose title occurs in its raw text
Located ==
  IF analysisResult = nil THEN {}
  ELSE { i \in 1 .. Len(analysisResult.groundingChunks) :
           /\ HasTitle(analysisResult.groundingChunks[i])
           /\ Contains(analysisResult.rawText,
                       analysisResult.groundingChunks[i].maps.title) }

\* the numbers written after a Phone: label in the generated texts
LabeledNumbers == {LabeledNumber, ShortNumber}

\* the characters after "Phone:" that the labeled pattern can take
LabelRun(number) == RunLen(Labeled(number), 7, PhoneClass)

\* C12 as stated: whenever the window of a located chunk contains a
\* Phone:-labeled number and a bare international number, the chunk's
\* phoneNumber is the labeled number.
C12_AsStated ==
  \A i \in Located :
    LET c == analysisResult.groundingChunks[i]
        w == Window(analysisResult.rawText, c.maps.title)
    IN  \A number \in LabeledNumbers :
          (Contains(w, Labeled(number)) /\ Contains(w, BareNumber)) =>
            (HasPhone(c) /\ c.maps.phoneNumber = number)

\* C12, amended: whenever the window of a located chunk contains a bare
\* international number and a Phone: label followed by at least 8 characters
\* of digits, whitespace, parentheses, hyphen and plus, the chunk's
\* phoneNumber is the labeled number; a label followed by fewer such
\* characters is no match, and the bare number is attached.
C12_LabeledPrecedence ==
  \A i \in Located :
    LET c == analysisResult.groundingChunks[i]
        w == Window(analysisResult.rawText, c.maps.title)
    IN  /\ \A number \in LabeledNumbers :
             ( /\ LabelRun(number) >= 8
               /\ Contains(w, Labeled(number)) /\ Contains(w, BareNumber) ) =>
               (HasPhone(c) /\ c.maps.phoneNumber = number)
        /\ ( /\ Contains(w, BareNumber)
             /\ \A number \in LabeledNumbers :
                  Contains(w, Labeled(number)) => LabelRun(number) < 8 ) =>
             (HasPhone(c) /\ c.maps.phoneNumber = BareNumber)

\* the bare number stands before the labeled one, and the labeled one is kept
C12_Witness ==
  /\ appState = RESULTS
  /\ analysisResult.rawText = PlaceText(1, BareNumber, 1, Labeled(LabeledNumber))
  /\ analysisResult.groundingChunks[1].maps.phoneNumber = LabeledNumber

RawText(response) ==
  IF response.text \in EmptyTexts THEN FallbackText ELSE response.text

\* what the enrichment may do to one chunk
ChunkPreserved(text, in, out) ==
  \/ out = in /\ ~HasPhone(out)
  \/ /\ HasTitle(in) /\ Contains(text, in.maps.title)
     /\ PhoneMatch(Window(text, in.maps.title)) # null
     /\ DOMAIN out = DOMAIN in
     /\ \A k \in DOMAIN in \ {"maps"} : out[k] = in[k]
     /\ DOMAIN out.maps = DOMAIN in.maps \cup {"phoneNumber"}
     /\ \A k \in DOMAIN in.maps : out.maps[k] = in.maps[k]

\* C14: the chunks of the result are the chunks of the response, as many and
\* in the same order, each one unchanged or changed only by an added
\* maps.phoneNumber, and unchanged without a phoneNumber when it has no
\* title, when its title is not in the raw text or when no pattern matches in
\* its window.
C14_ChunkListPreserved ==
  [][ \A p \in pipelines, response \in ParseResponses :
        ( /\ p.pc = "identifyDishAndFindPlaces" /\ appState' = RESULTS
          /\ analysisResult'.rawText = RawText(response)
          /\ analysisResolved(p, identifyDishAndFindPlaces(response)) ) =>
          LET text == analysisResult'.rawText
              in   == response.chunks
              out  == analysisResult'.groundingChunks
          IN  /\ Len(out) = Len(in)
              /\ \A i \in 1 .. Len(in) : ChunkPreserved(text, in[i], out[i])
    ]_vars

\* five chunks came back in order: the located one with a number, the others
\* as they were
C14_Witness ==
  /\ appState = RESULTS
  /\ Len(analysisResult.groundingChunks) = 5
  /\ HasPhone(analysisResult.groundingChunks[1])
  /\ analysisResult.groundingChunks[1].maps.phoneNumber = LabeledNumber
  /\ analysisResult.groundingChunks[1].maps.placeId = "p1"
  /\ \A i \in 2 .. 5 : analysisResult.groundingChunks[i] = PlaceChunks[i]

\* C15 as stated: a response without text gives the fallback raw text, the
\* generic description and an empty list of chunks.
C15_AsStated ==
  [][ \A p \in pipelines, response \in ParseResponses :
        ( /\ response.text \in EmptyTexts
          /\ analysisResolved(p, identifyDishAndFindPlaces(response)) ) =>
          /\ analysisResult'.rawText = FallbackText
          /\ analysisResult'.description = FallbackDescription
          /\ analysisResult'.groundingChunks = << >>
    ]_vars

\* C15, amended: a response without text gives the fallback raw text, the
\* generic description, and the response's own chunks unchanged (an empty list
\* only when the response carries none).
C15_EmptyResponse ==
  [][ \A p \in pipelines, response \in ParseResponses :
        ( /\ response.text \in EmptyTexts
          /\ analysisResolved(p, identifyDishAndFindPlaces(response)) ) =>
          /\ analysisResult'.rawText = FallbackText
          /\ analysisResult'.description = FallbackDescription
          /\ analysisResult'.groundingChunks = response.chunks
    ]_vars

\* a response without text whose chunks are shown
C15_Witness ==
  /\ appState = RESULTS
  /\ analysisResult.rawText = FallbackText
  /\ analysisResult.description = FallbackDescription
  /\ analysisResult.groundingChunks = PlaceChunks

(***************************************************************************)
(* The scan pipeline, under Spec.                                          *)
(***************************************************************************)
\* how often the event occurs in the trace of the scan
Count(tr, ev) == Cardinality({ k \in 1 .. Len(tr) : tr[k].ev = ev })

\* position of the event in the trace, 0 when it does not occur
Position(tr, ev) ==
  IF HasEvent(tr, ev) THEN CHOOSE k \in 1 .. Len(tr) : tr[k].ev = ev ELSE 0

Steps == {"normalized", "normalizeFailed", "getLocation", "located",
          "locationFailed", "identifyDishAndFindPlaces", "analyzed",
          "analysisFailed"}

\* the steps of one scan, in the order the code runs them
ScanOrder(tr) ==
  /\ \A ev \in Steps : Count(tr, ev) <= 1
  /\ Count(tr, "located") + Count(tr, "locationFailed") <= 1
  /\ HasEvent(tr, "normalizeFailed") =>
       ~HasEvent(tr, "normalized") /\ ~HasEvent(tr, "getLocation")
  /\ HasEvent(tr, "getLocation") =>
       /\ HasEvent(tr, "normalized")
       /\ Position(tr, "normalized") < Position(tr, "getLocation")
  /\ \A settled \in {"located", "locationFailed"} :
       HasEvent(tr, settled) =>
         /\ HasEvent(tr, "getLocation")
         /\ Position(tr, "getLocation") < Position(tr, settled)
  /\ HasEvent(tr, "identifyDishAndFindPlaces") =>
       /\ HasEvent(tr, "normalized")
       /\ \E settled \in {"located", "locationFailed"} :
            /\ HasEvent(tr, settled)
            /\ Position(tr, settled) < Position(tr, "identifyDishAndFindPlaces")
  /\ \A outcome \in {"analyzed", "analysisFailed"} :
       HasEvent(tr, outcome) =>
         /\ HasEvent(tr, "identifyDishAndFindPlaces")
         /\ Position(tr, "identifyDishAndFindPlaces") < Position(tr, outcome)

\* C16: in the trace of a scan every step occurs at most once and in the
\* order normalizer, location lookup (resolved or rejected), AI call, the AI
\* call only after a successful normalizer and a settled lookup; and a step
\* that leaves ERROR is resetApp.
C16_PipelineOrder ==
  [][ /\ (trace' # trace) =>
           /\ ScanOrder(trace')
           /\ \A k \in 1 .. Len(trace') : trace'[k].scan = scans'
      /\ (appState = ERROR /\ appState' # ERROR) => resetApp
      /\ (appState = ERROR /\ appState' = ERROR) => trace' = trace
    ]_vars

\* the AI call failed after a rejected location lookup and the state is ERROR
C16_Witness ==
  /\ appState = ERROR
  /\ HasEvent(trace, "locationFailed")
  /\ HasEvent(trace, "analysisFailed")
  /\ Count(trace, "identifyDishAndFindPlaces") = 1

\* C17: whenever uploadedImageUrl is non-null it is the URL of the upload
\* started by the most recent scan.
C17_UploadFreshness ==
  uploadedImageUrl # null => uploadedImageUrl = UploadUrl(scans)

\* C18: at most one pipeline is in flight, it belongs to the latest scan and
\* it is in flight exactly while the state is ANALYZING; a pipeline starts
\* only from IDLE, a reset happens only in RESULTS or ERROR, and a pipeline
\* outcome lands on the ANALYZING state its own file selection produced.
C18_OnePipeline ==
  [][ /\ Cardinality(pipelines') <= 1
      /\ \A p \in pipelines' : p.scan = scans'
      /\ (pipelines' # {}) <=> (appState' = ANALYZING)
      /\ (scans' # scans) => (appState = IDLE /\ pipelines = {})
      /\ resetApp => (appState \in {RESULTS, ERROR} /\ pipelines = {})
      /\ (pipelines' # pipelines /\ scans' = scans) =>
           /\ appState = ANALYZING
           /\ \E p \in pipelines : p.scan = scans /\ trace[1].scan = p.scan
    ]_vars

\* the second scan is running, alone
C18_Witness ==
  /\ scans = 2 /\ appState = ANALYZING
  /\ \E p \in pipelines : p.scan = 2 /\ p.pc = "identifyDishAndFindPlaces"

\* C19: with the normalizer, the location lookup and the AI call settling,
\* ANALYZING leads to RESULTS or ERROR; and a step that leaves ANALYZING is the
\* outcome of a pipeline: the result of the AI call, its failure, or the
\* normalizer's failure.
C19_Progress ==
  /\ (appState = ANALYZING) ~> (appState \in {RESULTS, ERROR})
  /\ [][ (appState = ANALYZING /\ appState' # ANALYZING) =>
           \/ appState' = RESULTS /\ Emits("analyzed")
           \/ appState' = ERROR /\ (Emits("analysisFailed") \/ Emits("normalizeFailed"))
       ]_vars

\* a scan that went through all three steps and ended
C19_Witness ==
  /\ appState = RESULTS
  /\ HasEvent(trace, "normalized") /\ HasEvent(trace, "located")
  /\ HasEvent(trace, "analyzed")

====
